---------------------------- MODULE Spec2Model ----------------------------
(***************************************************************************)
(* Worker-side profiling agent of lithopserve:                             *)
(*   - profiling_context (worker/profiler_context.py): the owner spawns a  *)
(*     monitor process running Profiler.start_profiling and releases it.   *)
(*   - Profiler (worker/profiler.py): the sampling loop of the monitor.    *)
(*   - MetricCollector (worker/metrics_collectors.py): one round of        *)
(*     collection over the process tree of the monitored process.          *)
(* The owner and the monitor are two OS processes; their steps interleave. *)
(***************************************************************************)
EXTENDS Integers, Sequences, FiniteSets, TLC

\* ------------------------------------------------------------------ bounds
\* Number of processes that may exist in the monitored tree (root included).
NumProcs == 2
\* Rounds the monitor may begin before a stop token is pending.
MaxRounds == 2
\* Faults of the environment one run may meet: a call of the owner or of
\* the monitor that raises or never returns, a process of the tree that
\* exits while it is monitored, or a clock of the host that is set back.
MaxFaults == 2
\* Largest divisor a record is divided by.
MaxDivisor == 2
\* Largest level of the field values of a record.
MaxValue == 1
\* Latest reading of the clock.
MaxTime == 2
\* Samples the Disk and the Network collector take together.
MaxSamples == 3

\* ------------------------------------------------------------ environment
\* pid of the worker that started the monitored process (the root's parent).
WorkerPid == 2
\* The monitored process (monitored_process_pid).
RootPid == 3
\* pid an orphaned process is re-parented to.
InitPid == 1

Pids == RootPid .. (RootPid + NumProcs - 1)

\* The tree is a chain: every non-root process is the child of the previous
\* pid, so that children(recursive=True) has transitive descendants.
ParentOf(p) == IF p = RootPid THEN WorkerPid ELSE p - 1

\* The job descriptors handed to start_profiling.
Jobs == {[job_id |-> "J7", executor_id |-> "E1", call_id |-> "C1"],
         [job_id |-> "J8", executor_id |-> "E1", call_id |-> "C2"]}

Digit == <<"0", "1", "2", "3", "4", "5", "6", "7", "8", "9">>

\* str(n) for a non-negative integer.
RECURSIVE Str(_)
Str(n) == IF n < 10 THEN Digit[n + 1] ELSE Str(n \div 10) \o Digit[(n % 10) + 1]

\* The reads made on one process of the snapshot in a round, in code order.
ProcessReads == <<"ppid", "memory", "cpu", "disk">>

\* ------------------------------------------------------------------ state
VARIABLES
    owner_pc,        \* position of the owner in profiling_context
    body_raised,     \* whether the scope body raised
    propagated,      \* what leaves the scope towards the owner
    owner_log,       \* logger.error / logger.warning lines of the owner
    chan,            \* parent_conn -> child_conn: tokens in flight
    chan_sent,       \* everything parent_conn.send() has written
    jr_in,           \* jobrunner_conn: messages pending for the context
    jr_out,          \* jobrunner_conn: messages sent by the context
    parent_closed,   \* owner's parent_conn closed
    child_closed,    \* owner's copy of child_conn closed
    closing,         \* endpoints whose close() the owner has called
    terminate_calls, \* monitoring_process.terminate() calls made
    reaped,          \* a join() of the owner has seen the monitor exited
    mon_pc,          \* position of the monitor in start_profiling
    mon_conn_closed, \* monitor's conn closed (finally of start_profiling)
    mon_log,         \* log lines of the monitor
    index,           \* round id of start_profiling
    job,             \* the job descriptor
    procs,           \* OS state of the monitored tree
    memory_metrics, cpu_metrics, disk_metrics, network_metrics,
    exported,        \* calls made to the exporter, in order
    rounds_after_stop, \* rounds begun since the stop token was put on chan
    faults,          \* faults of the environment met so far
    lhs, rhs,        \* metric records: the operands of a record expression
    number,          \* the scalar of a division
    expr,            \* the operations of the expression evaluated so far
    result,          \* outcome of the expression: its value or its error
    prometheus,      \* the PrometheusExporter, with the requests it has posted
    last_send,       \* the latest send_metric call and how it ended
    export_pos,      \* metric type and key _send_metrics is at
    handed,          \* the send_metric calls the Profiler has made, in order
    owner_metrics,   \* the four sequences of the Profiler object the owner holds
    clock,           \* the latest value time.time() returned to a collector
    sample_pos       \* the call collect_all_metrics is at, within a round

ownerControl == <<owner_pc, body_raised, propagated, owner_log, chan_sent, jr_in, jr_out,
                  parent_closed, child_closed, closing, terminate_calls, reaped>>
\* The memory of the owner: its control state and the Profiler object it yields.
ownerVars == <<ownerControl, owner_metrics>>
collectorVars == <<memory_metrics, cpu_metrics, disk_metrics, network_metrics>>
monVars == <<mon_conn_closed, mon_log, index, exported, rounds_after_stop>>
profilingVars == <<ownerVars, chan, mon_pc, monVars, job, procs, collectorVars, faults>>
metricVars == <<lhs, rhs, number, expr, result>>
\* The state of the components exercised on their own.
exporterVars == <<prometheus, last_send, export_pos, handed>>
samplingVars == <<clock, sample_pos>>
componentVars == <<metricVars, exporterVars, samplingVars>>
vars == <<profilingVars, componentVars>>

\* The environment injects n more faults, within the budget of the run.
Inject(n) == faults + n <= MaxFaults /\ faults' = faults + n

Bit(b) == IF b THEN 1 ELSE 0

\* The monitor process is running (Process.is_alive()).
MonitorAlive == mon_pc \notin {"stopped", "crashed", "terminated"}

\* ------------------------------------------------------------ collectors
ProcessRecord(pid, parent_pid, collection_id) ==
    [pid |-> pid, parent_pid |-> parent_pid, collection_id |-> collection_id]

NetworkRecord(collection_id) == [collection_id |-> collection_id]

\* handle_psutil_error around a per-process _collect: the record is appended
\* unless the process is gone, in which case nothing is (None is returned).
CollectMetric(metrics, gone, pid, parent_pid, collection_id) ==
    IF gone THEN metrics
    ELSE Append(metrics, ProcessRecord(pid, parent_pid, collection_id))

\* Mutant of CollectMetricsForProcess: the Network collector is invoked for
\* each process instead of once per round.
CollectMetricsForProcess_NetworkPerProcess(acc, pid, parent_pid, collection_id, reads) ==
    [acc EXCEPT
        !.memory = CollectMetric(@, reads < 2, pid, parent_pid, collection_id),
        !.cpu = CollectMetric(@, reads < 3, pid, parent_pid, collection_id),
        !.disk = CollectMetric(@, reads < 4, pid, parent_pid, collection_id),
        !.network = Append(@, NetworkRecord(collection_id))]

\* _collect_metrics_for_process: memory, then cpu, then disk. reads is the
\* number of reads the process answers before it exits in this round.
CollectMetricsForProcess(acc, pid, parent_pid, collection_id, reads) ==
    [acc EXCEPT
        !.memory = CollectMetric(@, reads < 2, pid, parent_pid, collection_id),
        !.cpu = CollectMetric(@, reads < 3, pid, parent_pid, collection_id),
        !.disk = CollectMetric(@, reads < 4, pid, parent_pid, collection_id)]

\* _get_process_list: the root followed by its live descendants.
ProcessList(ps) ==
    LET last == CHOOSE k \in Pids :
                    /\ \A q \in RootPid .. k : ps[q] = "alive"
                    /\ (k + 1 \in Pids => ps[k + 1] # "alive")
    IN [i \in 1 .. (last - RootPid + 1) |-> RootPid + i - 1]

\* proc.ppid() of a live process: its parent, or init once orphaned.
PPid(p, exitAt) ==
    IF p # RootPid /\ exitAt[p - 1] < Len(ProcessReads) THEN InitPid
    ELSE ParentOf(p)

\* The for loop of collect_all_metrics from position i of process_list.
\* proc.ppid() is read outside any handler: a process gone by then raises
\* NoSuchProcess out of collect_all_metrics.
RECURSIVE CollectLoop(_, _, _, _, _)
CollectLoop(acc, plist, i, collection_id, exitAt) ==
    IF i > Len(plist) THEN acc
    ELSE IF exitAt[plist[i]] = 0 THEN [acc EXCEPT !.raised = TRUE]
    ELSE CollectLoop(
            CollectMetricsForProcess(acc, plist[i], PPid(plist[i], exitAt),
                                     collection_id, exitAt[plist[i]]),
            plist, i + 1, collection_id, exitAt)

\* collect_all_metrics(parent_pid, index), given how far each process of
\* the snapshot lives (exitAt). raised: NoSuchProcess left the call.
CollectAllMetrics(acc, ps, collection_id, exitAt) ==
    IF ps[RootPid] # "alive" THEN [acc EXCEPT !.raised = TRUE]
    ELSE LET after == CollectLoop(acc, ProcessList(ps), 1, collection_id, exitAt)
         IN IF after.raised THEN after
            ELSE [after EXCEPT !.network = Append(@, NetworkRecord(collection_id))]


\* --------------------------------------------------------------- exporter
\* Profiler.METRIC_COLLECTIONS_FIELDS, in the order the dict is iterated.
MetricTypes == <<"cpu_metrics", "memory_metrics", "disk_metrics", "network_metrics">>

MetricFields(metric_type) ==
    CASE metric_type = "cpu_metrics" ->
            <<"cpu_usage", "user_time", "system_time", "children_user_time",
              "children_system_time", "iowait_time">>
      [] metric_type = "memory_metrics" -> <<"memory_usage">>
      [] metric_type = "disk_metrics" ->
            <<"disk_read_mb", "disk_write_mb", "disk_read_rate", "disk_write_rate">>
      [] metric_type = "network_metrics" ->
            <<"net_read_mb", "net_write_mb", "net_read_rate", "net_write_rate">>

\* getattr(self.metrics, metric_type, []) on the four sequences.
MetricList(cols, metric_type) ==
    CASE metric_type = "cpu_metrics" -> cols.cpu
      [] metric_type = "memory_metrics" -> cols.memory
      [] metric_type = "disk_metrics" -> cols.disk
      [] metric_type = "network_metrics" -> cols.network

\* _prepare_profiling_data: the static labels of the job.
PrepareProfilingData(j) ==
    {<<"job_id", j.job_id>>, <<"executor_id", j.executor_id>>, <<"call_id", j.call_id>>}

\* labels_dict of _send_metrics_to_prometheus.
LabelsDict(metric, metric_type, profiling_data) ==
    IF metric_type # "network_metrics"
    THEN profiling_data \cup {<<"pid", Str(metric.pid)>>,
                              <<"parent_pid", Str(metric.parent_pid)>>}
    ELSE profiling_data

\* _send_metrics_to_prometheus: the record's fields go to the exporter with
\* the labels of the record (one entry stands for the calls of all keys).
SendMetricsToPrometheus(exp, metric, metric_type, profiling_data) ==
    Append(exp, [metric_type |-> metric_type,
                 keys |-> MetricFields(metric_type),
                 labels |-> LabelsDict(metric, metric_type, profiling_data),
                 metric |-> metric])

\* The record _send_metrics picks for a round: metric_list[index] (0-based).
PickMetric(metric_list, idx) == metric_list[idx + 1]

\* _send_metrics from the t-th metric type on. hang: the metric type whose
\* export call never returns (0: none does).
RECURSIVE SendMetrics(_, _, _, _, _, _)
SendMetrics(exp, cols, idx, profiling_data, t, hang) ==
    IF t > Len(MetricTypes) THEN [exported |-> exp, wedged |-> FALSE]
    ELSE LET metric_type == MetricTypes[t]
             metric_list == MetricList(cols, metric_type)
         IN IF idx < Len(metric_list)
            THEN LET sent == SendMetricsToPrometheus(exp, PickMetric(metric_list, idx),
                                                     metric_type, profiling_data)
                 IN IF hang = t THEN [exported |-> sent, wedged |-> TRUE]
                    ELSE SendMetrics(sent, cols, idx, profiling_data, t + 1, hang)
            ELSE SendMetrics(exp, cols, idx, profiling_data, t + 1, hang)

\* The four sequences of the MetricCollector; raised: NoSuchProcess pending.
Collections == [memory |-> memory_metrics, cpu |-> cpu_metrics,
                disk |-> disk_metrics, network |-> network_metrics,
                raised |-> FALSE]

\* ---------------------------------------------------------------- monitor
\* The stop token has been put on the owner-to-monitor channel.
StopTokenSent == Len(chan_sent) > 0

\* Mutant of InitializeProcess: the loop polls for the stop token before
\* its first round.
InitializeProcess_PollFirst ==
    /\ UNCHANGED componentVars
    /\ mon_pc = "start"
    /\ IF procs[RootPid] # "alive"
       THEN mon_pc' = "crashed"
       ELSE mon_pc' = "poll"
    /\ UNCHANGED <<ownerVars, chan, monVars, job, procs, collectorVars, faults>>

\* start_profiling up to the loop: _initialize_process and
\* _prepare_profiling_data run before the try block, so that NoSuchProcess
\* from psutil.Process(monitored_process_pid) ends the monitor without the
\* finally block.
InitializeProcess ==
    /\ UNCHANGED componentVars
    /\ mon_pc = "start"
    /\ IF procs[RootPid] # "alive"
       THEN mon_pc' = "crashed"
       ELSE mon_pc' = "collect"
    /\ UNCHANGED <<ownerVars, chan, monVars, job, procs, collectorVars, faults>>

\* The exitAt functions a round may meet: a process outside the snapshot, or
\* behind the process whose ppid() raised, is not read at all.
ExitChoices(ps) ==
    IF ps[RootPid] # "alive" THEN {[p \in Pids |-> Len(ProcessReads)]}
    ELSE LET plist == ProcessList(ps)
             inList == {plist[i] : i \in 1 .. Len(plist)}
         IN {e \in [Pids -> 0 .. Len(ProcessReads)] :
                /\ \A p \in Pids \ inList : e[p] = Len(ProcessReads)
                /\ \A p, q \in inList : (p < q /\ e[p] = 0) => e[q] = Len(ProcessReads)}

\* Profiler(): a new object holds four empty metric lists.
Profiler == [memory |-> <<>>, cpu |-> <<>>, disk |-> <<>>, network |-> <<>>]

\* Mutant of OwnerHandle: start_profiling runs in the address space of the
\* owner (a thread), on the object the owner holds.
OwnerHandle_SharedMemory(handle, monitors) == monitors

\* Process(target=profiler.start_profiling, ...).start(): the loop runs in a
\* child process, on that process's copy of the Profiler object; what the
\* copy's collectors append does not reach the object the owner holds.
OwnerHandle(handle, monitors) == handle

\* _collect_metrics: collect_all_metrics with NoSuchProcess caught and logged;
\* the call returns normally either way.
CollectMetrics ==
    /\ UNCHANGED componentVars
    /\ mon_pc = "collect"
    /\ \E exitAt \in ExitChoices(procs) :
          LET acc == CollectAllMetrics(Collections, procs, index, exitAt)
          IN /\ memory_metrics' = acc.memory
             /\ cpu_metrics' = acc.cpu
             /\ disk_metrics' = acc.disk
             /\ network_metrics' = acc.network
             /\ owner_metrics' = OwnerHandle(owner_metrics,
                                    [memory |-> acc.memory, cpu |-> acc.cpu,
                                     disk |-> acc.disk, network |-> acc.network])
             /\ mon_log' = IF acc.raised
                           THEN mon_log \cup {"Skipping metric collection"}
                           ELSE mon_log
             /\ procs' = [p \in Pids |->
                            IF procs[p] = "alive" /\ exitAt[p] < Len(ProcessReads)
                            THEN "dead" ELSE procs[p]]
             /\ Inject(Cardinality({p \in Pids : exitAt[p] < Len(ProcessReads)}))
    /\ rounds_after_stop' = IF StopTokenSent THEN rounds_after_stop + 1
                            ELSE rounds_after_stop
    /\ mon_pc' = "send"
    /\ UNCHANGED <<ownerControl, chan, mon_conn_closed, index, exported, job>>

\* _send_metrics, then index += 1; or an export call that never returns.
SendRound ==
    /\ UNCHANGED componentVars
    /\ mon_pc = "send"
    /\ \E hang \in 0 .. Len(MetricTypes) :
          LET out == SendMetrics(exported, Collections, index,
                                 PrepareProfilingData(job), 1, hang)
          IN /\ (hang # 0) => out.wedged
             /\ Inject(Bit(out.wedged))
             /\ exported' = out.exported
             /\ IF out.wedged
                THEN mon_pc' = "wedged" /\ index' = index
                ELSE mon_pc' = "poll" /\ index' = index + 1
    /\ UNCHANGED <<ownerVars, chan, mon_conn_closed, mon_log, rounds_after_stop,
                   job, procs, collectorVars>>

\* Mutant of CheckStopSignal: the message is received and not compared with
\* "stop".
CheckStopSignal_IgnoresToken(pending) ==
    IF Len(pending) > 0
    THEN [rest |-> Tail(pending), stop |-> FALSE]
    ELSE [rest |-> pending, stop |-> FALSE]

\* _check_stop_signal: conn.poll() without timeout, recv() only if a message
\* is there. The result is whether the loop breaks.
CheckStopSignal(pending) ==
    IF Len(pending) > 0
    THEN [rest |-> Tail(pending), stop |-> Head(pending) = "stop"]
    ELSE [rest |-> pending, stop |-> FALSE]

\* The poll of the loop; break, or a failure of the channel, ends in the
\* finally block, which closes conn.
PollStep ==
    /\ UNCHANGED componentVars
    /\ mon_pc = "poll"
    /\ \/ /\ LET r == CheckStopSignal(chan)
             IN /\ chan' = r.rest
                /\ IF r.stop
                   THEN /\ mon_pc' = "stopped"
                        /\ mon_conn_closed' = TRUE
                        /\ mon_log' = mon_log \cup {"Received stop signal"}
                   ELSE /\ mon_pc' = "sleep"
                        /\ UNCHANGED <<mon_conn_closed, mon_log>>
          /\ UNCHANGED faults
       \/ /\ Inject(1)
          /\ mon_pc' = "stopped"
          /\ mon_conn_closed' = TRUE
          /\ mon_log' = mon_log \cup {"Exception in profiling process"}
          /\ UNCHANGED chan
    /\ UNCHANGED <<ownerVars, index, exported, rounds_after_stop, job, procs,
                   collectorVars>>

\* _sleep_until_next_interval: the sleep is finite; the next round begins.
SleepUntilNextInterval ==
    /\ UNCHANGED componentVars
    /\ mon_pc = "sleep"
    /\ index < MaxRounds \/ Len(chan) > 0
    /\ mon_pc' = "collect"
    /\ UNCHANGED <<ownerVars, chan, monVars, job, procs, collectorVars, faults>>

\* A process of the monitored tree exits between two reads of the monitor.
ProcExit(p) ==
    /\ UNCHANGED componentVars
    /\ mon_pc \in {"start", "collect"}
    /\ procs[p] = "alive"
    /\ procs' = [procs EXCEPT ![p] = "dead"]
    /\ Inject(1)
    /\ UNCHANGED <<ownerVars, chan, mon_pc, monVars, job, collectorVars>>

\* ------------------------------------------------------------------ owner
\* Mutant of ScopeBody: the release is not in a finally block, so a body
\* that raises leaves the scope at once.
ScopeBody_NoFinally(raises) ==
    /\ UNCHANGED componentVars
    /\ UNCHANGED owner_metrics
    /\ owner_pc = "body"
    /\ body_raised' = raises
    /\ IF raises
       THEN owner_pc' = "exited" /\ propagated' = "body"
       ELSE owner_pc' = "send_stop" /\ UNCHANGED propagated
    /\ UNCHANGED <<chan_sent, closing, owner_log, jr_in, jr_out, parent_closed,
                   child_closed, terminate_calls, reaped, chan, mon_pc, monVars, job,
                   procs, collectorVars, faults>>

\* The scope body ends, normally or by raising; the finally block starts.
ScopeBody(raises) ==
    /\ UNCHANGED componentVars
    /\ UNCHANGED owner_metrics
    /\ owner_pc = "body"
    /\ body_raised' = raises
    /\ owner_pc' = "send_stop"
    /\ UNCHANGED <<chan_sent, closing, propagated, owner_log, jr_in, jr_out, parent_closed, child_closed,
                   terminate_calls, reaped, chan, mon_pc, monVars, job, procs,
                   collectorVars, faults>>

\* The job runner writes a message on its end of jobrunner_conn.
JobRunnerSend(message) ==
    /\ UNCHANGED componentVars
    /\ UNCHANGED owner_metrics
    /\ owner_pc = "body"
    /\ jr_in = <<>>
    /\ jr_in' = <<message>>
    /\ UNCHANGED <<chan_sent, closing, owner_pc, body_raised, propagated, owner_log, jr_out, parent_closed,
                   child_closed, terminate_calls, reaped, chan, mon_pc, monVars, job,
                   procs, collectorVars, faults>>

\* _send_stop_signal(parent_conn) inside its try: parent_conn of Pipe() is
\* writable, so send("stop") is called; its failure is logged.
SendStopSignal(fails) ==
    /\ UNCHANGED componentVars
    /\ UNCHANGED owner_metrics
    /\ owner_pc = "send_stop"
    /\ Inject(Bit(fails))
    /\ IF fails
       THEN /\ owner_log' = owner_log \cup {"Failed to send stop signal"}
            /\ UNCHANGED <<chan, chan_sent>>
       ELSE /\ chan' = Append(chan, "stop")
            /\ chan_sent' = Append(chan_sent, "stop")
            /\ UNCHANGED owner_log
    /\ owner_pc' = "jobrunner"
    /\ UNCHANGED <<closing, body_raised, propagated, jr_in, jr_out, parent_closed, child_closed,
                   terminate_calls, reaped, mon_pc, monVars, job, procs, collectorVars>>

\* Mutant of HandleJobrunnerSignal: "stop" is sent back for any message.
HandleJobrunnerSignal_AnyMessage(fails) ==
    /\ UNCHANGED componentVars
    /\ UNCHANGED owner_metrics
    /\ owner_pc = "jobrunner"
    /\ Inject(Bit(fails))
    /\ IF fails
       THEN /\ owner_log' = owner_log \cup {"Error handling jobrunner signal"}
            /\ UNCHANGED <<jr_in, jr_out>>
       ELSE /\ IF Len(jr_in) > 0
               THEN /\ jr_in' = Tail(jr_in)
                    /\ jr_out' = Append(jr_out, "stop")
               ELSE UNCHANGED <<jr_in, jr_out>>
            /\ UNCHANGED owner_log
    /\ owner_pc' = "join_timeout"
    /\ UNCHANGED <<chan_sent, closing, body_raised, propagated, parent_closed, child_closed,
                   terminate_calls, reaped, chan, mon_pc, monVars, job, procs,
                   collectorVars>>

\* _handle_jobrunner_signal(jobrunner_conn) inside its try: poll(), recv(),
\* and "stop" sent back when the message is "Finished".
HandleJobrunnerSignal(fails) ==
    /\ UNCHANGED componentVars
    /\ UNCHANGED owner_metrics
    /\ owner_pc = "jobrunner"
    /\ Inject(Bit(fails))
    /\ IF fails
       THEN /\ owner_log' = owner_log \cup {"Error handling jobrunner signal"}
            /\ UNCHANGED <<jr_in, jr_out>>
       ELSE /\ IF Len(jr_in) > 0
               THEN /\ jr_in' = Tail(jr_in)
                    /\ jr_out' = IF Head(jr_in) = "Finished"
                                 THEN Append(jr_out, "stop") ELSE jr_out
               ELSE UNCHANGED <<jr_in, jr_out>>
            /\ UNCHANGED owner_log
    /\ owner_pc' = "join_timeout"
    /\ UNCHANGED <<chan_sent, closing, body_raised, propagated, parent_closed, child_closed,
                   terminate_calls, reaped, chan, mon_pc, monVars, job, procs,
                   collectorVars>>

\* Mutant of JoinTimeout: terminate() follows the bounded wait without the
\* is_alive() test.
JoinTimeout_ThenTerminate(fails) ==
    /\ UNCHANGED componentVars
    /\ UNCHANGED owner_metrics
    /\ owner_pc = "join_timeout"
    /\ Inject(Bit(fails))
    /\ IF fails
       THEN /\ owner_pc' = "handler_is_alive"
            /\ owner_log' = owner_log \cup {"Error finalizing profiling process"}
            /\ UNCHANGED reaped
       ELSE /\ owner_pc' = "terminate"
            /\ reaped' = ~MonitorAlive
            /\ UNCHANGED owner_log
    /\ UNCHANGED <<chan_sent, closing, body_raised, propagated, jr_in, jr_out, parent_closed,
                   child_closed, terminate_calls, chan, mon_pc, monVars, job, procs,
                   collectorVars>>

\* _finalize_process, try block: monitoring_process.join(timeout=5) returns
\* when the monitor has exited or the 5 seconds have passed, or raises.
JoinTimeout(fails) ==
    /\ UNCHANGED componentVars
    /\ UNCHANGED owner_metrics
    /\ owner_pc = "join_timeout"
    /\ Inject(Bit(fails))
    /\ IF fails
       THEN /\ owner_pc' = "handler_is_alive"
            /\ owner_log' = owner_log \cup {"Error finalizing profiling process"}
            /\ UNCHANGED reaped
       ELSE /\ owner_pc' = "is_alive"
            /\ reaped' = ~MonitorAlive
            /\ UNCHANGED owner_log
    /\ UNCHANGED <<chan_sent, closing, body_raised, propagated, jr_in, jr_out, parent_closed, child_closed,
                   terminate_calls, chan, mon_pc, monVars, job, procs, collectorVars>>

\* Mutant of IsAlive: a monitor found alive after the bounded wait is left
\* running.
IsAlive_NoTerminate ==
    /\ UNCHANGED componentVars
    /\ UNCHANGED owner_metrics
    /\ owner_pc = "is_alive"
    /\ owner_pc' = "close"
    /\ UNCHANGED <<chan_sent, closing, body_raised, propagated, owner_log, jr_in, jr_out,
                   parent_closed, child_closed, terminate_calls, reaped, chan, mon_pc,
                   monVars, job, procs, collectorVars, faults>>

\* if monitoring_process.is_alive(): (try block)
IsAlive ==
    /\ UNCHANGED componentVars
    /\ UNCHANGED owner_metrics
    /\ owner_pc = "is_alive"
    /\ IF MonitorAlive
       THEN /\ owner_pc' = "terminate"
            /\ owner_log' = owner_log \cup {"Profiling process is still alive, terminating..."}
            /\ UNCHANGED reaped
       ELSE /\ owner_pc' = "close"
            /\ reaped' = TRUE
            /\ UNCHANGED owner_log
    /\ UNCHANGED <<chan_sent, closing, body_raised, propagated, jr_in, jr_out, parent_closed, child_closed,
                   terminate_calls, chan, mon_pc, monVars, job, procs, collectorVars, faults>>

\* The effect of SIGTERM on the monitor: a running monitor ends at once,
\* wherever it is; an exited one is left as it is.
Terminated(pc) == IF pc \in {"stopped", "crashed", "terminated"} THEN pc ELSE "terminated"

\* monitoring_process.terminate() of the try block; a failure goes to the
\* except block.
Terminate(fails) ==
    /\ UNCHANGED componentVars
    /\ UNCHANGED owner_metrics
    /\ owner_pc = "terminate"
    /\ Inject(Bit(fails))
    /\ terminate_calls' = terminate_calls + 1
    /\ IF fails
       THEN /\ owner_pc' = "handler_is_alive"
            /\ owner_log' = owner_log \cup {"Error finalizing profiling process"}
            /\ UNCHANGED mon_pc
       ELSE /\ owner_pc' = "join"
            /\ mon_pc' = Terminated(mon_pc)
            /\ UNCHANGED owner_log
    /\ UNCHANGED <<chan_sent, closing, body_raised, propagated, jr_in, jr_out, parent_closed, child_closed,
                   reaped, chan, monVars, job, procs, collectorVars>>

\* monitoring_process.join() of the try block: returns once the monitor has
\* exited; a failure goes to the except block.
Join(fails) ==
    /\ UNCHANGED componentVars
    /\ UNCHANGED owner_metrics
    /\ owner_pc = "join"
    /\ Inject(Bit(fails))
    /\ IF fails
       THEN /\ owner_pc' = "handler_is_alive"
            /\ owner_log' = owner_log \cup {"Error finalizing profiling process"}
            /\ UNCHANGED reaped
       ELSE /\ ~MonitorAlive
            /\ owner_pc' = "close"
            /\ reaped' = TRUE
            /\ UNCHANGED owner_log
    /\ UNCHANGED <<chan_sent, closing, body_raised, propagated, jr_in, jr_out, parent_closed, child_closed,
                   terminate_calls, chan, mon_pc, monVars, job, procs, collectorVars>>

\* except block: if monitoring_process.is_alive():
HandlerIsAlive ==
    /\ UNCHANGED componentVars
    /\ UNCHANGED owner_metrics
    /\ owner_pc = "handler_is_alive"
    /\ IF MonitorAlive
       THEN owner_pc' = "handler_terminate" /\ UNCHANGED reaped
       ELSE owner_pc' = "close" /\ reaped' = TRUE
    /\ UNCHANGED <<chan_sent, closing, body_raised, propagated, owner_log, jr_in, jr_out, parent_closed,
                   child_closed, terminate_calls, chan, mon_pc, monVars, job, procs,
                   collectorVars, faults>>

\* except block: terminate(); no handler is around it, so a failure leaves
\* _finalize_process, the finally block and the scope.
HandlerTerminate(fails) ==
    /\ UNCHANGED componentVars
    /\ UNCHANGED owner_metrics
    /\ owner_pc = "handler_terminate"
    /\ Inject(Bit(fails))
    /\ terminate_calls' = terminate_calls + 1
    /\ IF fails
       THEN /\ owner_pc' = "exited"
            /\ propagated' = "finalize"
            /\ UNCHANGED mon_pc
       ELSE /\ owner_pc' = "handler_join"
            /\ mon_pc' = Terminated(mon_pc)
            /\ UNCHANGED propagated
    /\ UNCHANGED <<chan_sent, closing, body_raised, owner_log, jr_in, jr_out, parent_closed, child_closed,
                   reaped, chan, monVars, job, procs, collectorVars>>

\* except block: join(); a failure leaves the scope as well.
HandlerJoin(fails) ==
    /\ UNCHANGED componentVars
    /\ UNCHANGED owner_metrics
    /\ owner_pc = "handler_join"
    /\ Inject(Bit(fails))
    /\ IF fails
       THEN /\ owner_pc' = "exited"
            /\ propagated' = "finalize"
            /\ UNCHANGED reaped
       ELSE /\ ~MonitorAlive
            /\ owner_pc' = "close"
            /\ reaped' = TRUE
            /\ UNCHANGED propagated
    /\ UNCHANGED <<chan_sent, closing, body_raised, owner_log, jr_in, jr_out, parent_closed, child_closed,
                   terminate_calls, chan, mon_pc, monVars, job, procs, collectorVars>>

\* _close_connections: both close() calls sit in one try block. failing is
\* the endpoint whose close() raises ("none": neither does). The scope is
\* then left with the exception of the body, if it raised one.
CloseConnections(failing) ==
    /\ UNCHANGED componentVars
    /\ UNCHANGED owner_metrics
    /\ owner_pc = "close"
    /\ Inject(Bit(failing # "none"))
    /\ closing' = IF failing = "parent_conn" THEN {"parent_conn"}
                   ELSE {"parent_conn", "child_conn"}
    /\ parent_closed' = (failing # "parent_conn")
    /\ child_closed' = (failing = "none")
    /\ owner_log' = IF failing = "none" THEN owner_log
                    ELSE owner_log \cup {"Error closing pipe connections"}
    /\ propagated' = IF body_raised THEN "body" ELSE "none"
    /\ owner_pc' = "exited"
    /\ UNCHANGED <<chan_sent, body_raised, jr_in, jr_out, terminate_calls, reaped, chan, mon_pc,
                   monVars, job, procs, collectorVars>>

\* --------------------------------------------------------- metric records
\* worker/metrics.py: a record is an instance of one of the four dataclasses;
\* data holds its attributes.
Kinds == <<"CPUMetric", "MemoryMetric", "DiskMetric", "NetworkMetric">>

ToSet(seq) == {seq[i] : i \in DOMAIN seq}

\* METRIC_TYPES_FIELDS of each class: the additive fields.
MetricTypesFields(kind) ==
    CASE kind = "CPUMetric" ->
            <<"cpu_usage", "user_time", "system_time", "children_user_time",
              "children_system_time", "iowait_time">>
      [] kind = "MemoryMetric" -> <<"memory_usage">>
      [] kind = "DiskMetric" ->
            <<"disk_read_mb", "disk_write_mb", "disk_read_rate", "disk_write_rate">>
      [] kind = "NetworkMetric" ->
            <<"net_read_mb", "net_write_mb", "net_read_rate", "net_write_rate">>

\* The parameters of the generated __init__ of each dataclass, none of which
\* has a default: those of MetricBase, those of ProcessMetric for the three
\* process kinds, then the fields of the class.
InitParameters(kind) ==
    <<"timestamp", "collection_id">>
        \o (IF kind = "NetworkMetric" THEN <<>> ELSE <<"pid", "parent_pid">>)
        \o MetricTypesFields(kind)

\* No record (None).
NoMetric == [kind |-> "None", data |-> [f \in {"timestamp"} |-> 0]]

\* An expression that has raised nothing; its value, once it has one.
Returned(value) == [error |-> "none", detail |-> "", value |-> value]

Raised(error, detail) == [error |-> error, detail |-> detail, value |-> NoMetric]

\* self.__class__(**new_data): a missing or an unexpected keyword argument
\* is a TypeError of the call.
Construct(kind, new_data) ==
    IF DOMAIN new_data = ToSet(InitParameters(kind))
    THEN Returned([kind |-> kind, data |-> new_data])
    ELSE Raised("TypeError", "__init__() missing required arguments")

\* getattr(metric, name, default)
GetAttr(metric, name, default) ==
    IF name \in DOMAIN metric.data THEN metric.data[name] ELSE default

Max(a, b) == IF a >= b THEN a ELSE b

\* Mutant of IsInstance: any metric record is accepted as the other operand.
IsInstance_AnyMetric(other, self) == other.kind \in ToSet(Kinds)

\* isinstance(other, type(self)): the four classes do not derive from one
\* another.
IsInstance(other, self) == other.kind = self.kind

\* new_data of __add__ (sign 1) and __sub__ (sign -1): timestamp and
\* collection_id, and the additive fields of the two operands combined.
Combined(self, other, sign) ==
    [f \in {"timestamp", "collection_id"} \cup ToSet(MetricTypesFields(self.kind)) |->
        CASE f = "timestamp" -> Max(self.data.timestamp, other.data.timestamp)
          [] f = "collection_id" -> self.data.collection_id
          [] OTHER -> GetAttr(self, f, 0) + sign * GetAttr(other, f, 0)]

\* MetricBase.__add__
MetricAdd(self, other) ==
    IF ~IsInstance(other, self)
    THEN Raised("TypeError", "Cannot add different metric types")
    ELSE Construct(self.kind, Combined(self, other, 1))

\* MetricBase.__sub__
MetricSub(self, other) ==
    IF ~IsInstance(other, self)
    THEN Raised("TypeError", "Cannot subtract different metric types")
    ELSE Construct(self.kind, Combined(self, other, -1))

\* MetricBase.__truediv__ by an int or a float. The field values of the
\* records are multiples of every divisor, so that the quotient is exact.
MetricTrueDiv(self, n) ==
    IF n = 0
    THEN Raised("ValueError", "Cannot divide by zero.")
    ELSE Construct(self.kind,
            [f \in {"timestamp", "collection_id"} \cup ToSet(MetricTypesFields(self.kind)) |->
                CASE f = "timestamp" -> self.data.timestamp
                  [] f = "collection_id" -> self.data.collection_id
                  [] OTHER -> GetAttr(self, f, 0) \div n])

RECURSIVE Factorial(_)
Factorial(n) == IF n <= 1 THEN 1 ELSE n * Factorial(n - 1)

\* Unit of the field values: a multiple of each divisor in 1 .. MaxDivisor.
Scale == Factorial(MaxDivisor)

\* Place of name in a sequence of names.
Position(names, name) == CHOOSE i \in DOMAIN names : names[i] = name

\* A record as a collector builds it: every parameter is given; the k-th
\* additive field holds level + k units.
MetricOf(kind, timestamp, collection_id, pid, level) ==
    [kind |-> kind,
     data |-> [f \in ToSet(InitParameters(kind)) |->
                 CASE f = "timestamp" -> timestamp
                   [] f = "collection_id" -> collection_id
                   [] f = "pid" -> pid
                   [] f = "parent_pid" -> ParentOf(pid)
                   [] OTHER -> (level + Position(MetricTypesFields(kind), f)) * Scale]]

\* The records of the processes pids, of every kind.
MetricsOf(pids) ==
    {MetricOf(Kinds[k], t, c, p, v) :
        k \in DOMAIN Kinds, t \in 0 .. MaxRounds - 1, c \in 0 .. MaxRounds - 1,
        p \in pids, v \in 0 .. MaxValue}

outsideMetric == <<profilingVars, exporterVars, samplingVars>>

\* A + B
EvalAdd ==
    /\ expr = <<>>
    /\ result' = MetricAdd(lhs, rhs)
    /\ expr' = <<"add">>
    /\ UNCHANGED <<lhs, rhs, number, outsideMetric>>

\* B + A
EvalAddSwapped ==
    /\ expr = <<>>
    /\ result' = MetricAdd(rhs, lhs)
    /\ expr' = <<"radd">>
    /\ UNCHANGED <<lhs, rhs, number, outsideMetric>>

\* A - B, or (A + B) - B once A + B has a value.
EvalSub ==
    /\ expr \in {<<>>, <<"add">>}
    /\ result.error = "none"
    /\ result' = MetricSub(IF expr = <<>> THEN lhs ELSE result.value, rhs)
    /\ expr' = Append(expr, "sub")
    /\ UNCHANGED <<lhs, rhs, number, outsideMetric>>

\* A / n
EvalTrueDiv(n) ==
    /\ expr = <<>>
    /\ number' = n
    /\ result' = MetricTrueDiv(lhs, n)
    /\ expr' = <<"truediv">>
    /\ UNCHANGED <<lhs, rhs, outsideMetric>>

\* No expression is being evaluated.
MetricIdle ==
    /\ lhs = NoMetric
    /\ rhs = NoMetric
    /\ number = 0
    /\ expr = <<>>
    /\ result = Returned(NoMetric)

\* ------------------------------------------------------------------ rates
\* The Disk and Network collectors with the values they read: each sample
\* is appended to the sequence of its collector (disk_metrics,
\* network_metrics), with the rates derived from the sequence.

\* _calculate_rates. The cumulative values are multiples of every time
\* difference, so that the quotient is exact.
CalculateRates(current_value, previous_value, time_diff) ==
    IF time_diff > 0 THEN (current_value - previous_value) \div time_diff ELSE 0

\* Mutant of FindPreviousMetric: the latest record of the sequence, of
\* whatever process.
FindPreviousMetric_Latest(metrics, pid) ==
    IF Len(metrics) = 0 THEN <<>> ELSE <<metrics[Len(metrics)]>>

\* BaseMetricCollector._find_previous_metric: the first record with this pid
\* in reversed(self.metrics); <<>> stands for None.
RECURSIVE FindPreviousMetric(_, _)
FindPreviousMetric(metrics, pid) ==
    IF Len(metrics) = 0 THEN <<>>
    ELSE IF metrics[Len(metrics)].pid = pid THEN <<metrics[Len(metrics)]>>
    ELSE FindPreviousMetric(SubSeq(metrics, 1, Len(metrics) - 1), pid)

\* GlobalMetricCollector._find_previous_metric: self.metrics[-1], or None.
FindPreviousGlobalMetric(metrics) ==
    IF Len(metrics) = 0 THEN <<>> ELSE <<metrics[Len(metrics)]>>

\* DiskMetricCollector._collect, given the counters read for the process.
DiskCollect(metrics, pid, parent_pid, timestamp, collection_id, disk_read_mb, disk_write_mb) ==
    LET prev_metric == FindPreviousMetric(metrics, pid)
        time_diff == timestamp - prev_metric[1].timestamp
    IN Append(metrics,
          [timestamp |-> timestamp, pid |-> pid, parent_pid |-> parent_pid,
           disk_read_mb |-> disk_read_mb, disk_write_mb |-> disk_write_mb,
           disk_read_rate |->
               IF prev_metric = <<>> THEN 0
               ELSE CalculateRates(disk_read_mb, prev_metric[1].disk_read_mb, time_diff),
           disk_write_rate |->
               IF prev_metric = <<>> THEN 0
               ELSE CalculateRates(disk_write_mb, prev_metric[1].disk_write_mb, time_diff),
           collection_id |-> collection_id])

\* NetworkMetricCollector._collect, given the counters of the host.
NetworkCollect(metrics, timestamp, collection_id, net_read_mb, net_write_mb) ==
    LET prev_metric == FindPreviousGlobalMetric(metrics)
        time_diff == timestamp - prev_metric[1].timestamp
    IN Append(metrics,
          [timestamp |-> timestamp,
           net_read_mb |-> net_read_mb, net_write_mb |-> net_write_mb,
           net_read_rate |->
               IF prev_metric = <<>> THEN 0
               ELSE CalculateRates(net_read_mb, prev_metric[1].net_read_mb, time_diff),
           net_write_rate |->
               IF prev_metric = <<>> THEN 0
               ELSE CalculateRates(net_write_mb, prev_metric[1].net_write_mb, time_diff),
           collection_id |-> collection_id])

\* Unit of the cumulative values: a multiple of each time difference.
RateScale == Factorial(MaxTime)

\* What time.time() may return: the clock of the host can be set back.
Timestamps == 0 .. MaxTime

\* The cumulative counters a read may return, in MB; the write counter read
\* with a read counter is twice as far.
CounterValues == {v * RateScale : v \in 0 .. MaxValue}

outsideRates == <<ownerVars, chan, mon_pc, monVars, job, procs, memory_metrics,
                  cpu_metrics, faults, componentVars>>

\* disk_collector.collect_metric(pid, parent_pid, index)
DiskSample(pid, timestamp, disk_read_mb) ==
    /\ Len(disk_metrics) + Len(network_metrics) < MaxSamples
    /\ disk_metrics' = DiskCollect(disk_metrics, pid, ParentOf(pid), timestamp, index,
                                   disk_read_mb, 2 * disk_read_mb)
    /\ UNCHANGED <<network_metrics, outsideRates>>

\* network_collector.collect_metric(index)
NetworkSample(timestamp, net_read_mb) ==
    /\ Len(disk_metrics) + Len(network_metrics) < MaxSamples
    /\ network_metrics' = NetworkCollect(network_metrics, timestamp, index,
                                         net_read_mb, 2 * net_read_mb)
    /\ UNCHANGED <<disk_metrics, outsideRates>>

\* --------------------------------------------------------------- sampling
\* The rounds of the monitor with the clock: every collect_metric call
\* reads time.time() and stamps with it the record it appends.

\* collect_all_metrics is not running.
NotSampling == [at |-> "idle", i |-> 0, n |-> 0, parent_pid |-> 0]

\* No round is sampled call by call.
SamplingIdle ==
    /\ clock = 0
    /\ sample_pos = NotSampling

outsideSampling == <<ownerVars, chan, mon_pc, mon_conn_closed, rounds_after_stop, job,
                     metricVars, exporterVars>>

\* collect_metric of a per-process collector with the time it read: _collect
\* under handle_psutil_error appends the record unless the process is gone.
CollectMetricAt(metrics, gone, timestamp, pid, parent_pid, collection_id) ==
    IF gone THEN metrics
    ELSE Append(metrics,
                [timestamp |-> timestamp] @@ ProcessRecord(pid, parent_pid, collection_id))

\* The process of the snapshot the for loop of collect_all_metrics is at.
SampledPid == RootPid + sample_pos.i - 1

\* _collect_metrics calls collect_all_metrics, which takes the snapshot of
\* the tree; a root that is gone raises NoSuchProcess, which _collect_metrics
\* logs before it returns.
SampleStart ==
    /\ sample_pos.at = "idle"
    /\ index < MaxRounds
    /\ IF procs[RootPid] # "alive"
       THEN /\ sample_pos' = [sample_pos EXCEPT !.at = "send"]
            /\ mon_log' = mon_log \cup {"Skipping metric collection"}
       ELSE /\ sample_pos' = [at |-> "ppid", i |-> 1, n |-> Len(ProcessList(procs)),
                              parent_pid |-> 0]
            /\ UNCHANGED mon_log
    /\ UNCHANGED <<clock, collectorVars, index, exported, procs, faults, outsideSampling>>

\* proc.ppid() of the next process of the snapshot: read outside any handler,
\* so a process gone by then ends the collection of the round.
SamplePPid ==
    /\ sample_pos.at = "ppid"
    /\ IF procs[SampledPid] # "alive"
       THEN /\ sample_pos' = [sample_pos EXCEPT !.at = "send"]
            /\ mon_log' = mon_log \cup {"Skipping metric collection"}
       ELSE /\ sample_pos' = [sample_pos EXCEPT
                                 !.at = "memory",
                                 !.parent_pid =
                                     IF SampledPid # RootPid /\ procs[SampledPid - 1] # "alive"
                                     THEN InitPid ELSE ParentOf(SampledPid)]
            /\ UNCHANGED mon_log
    /\ UNCHANGED <<clock, collectorVars, index, exported, procs, faults, outsideSampling>>

\* One call of _collect_metrics_for_process: memory, cpu or disk
\* collect_metric(pid, parent_pid, index). time.time() returns timestamp; a
\* value below the previous one is a clock that was set back.
SampleCollect(timestamp) ==
    /\ sample_pos.at \in {"memory", "cpu", "disk"}
    /\ Inject(Bit(timestamp < clock))
    /\ clock' = timestamp
    /\ LET gone == procs[SampledPid] # "alive"
           Collected(metrics) == CollectMetricAt(metrics, gone, timestamp, SampledPid,
                                                 sample_pos.parent_pid, index)
       IN /\ memory_metrics' = IF sample_pos.at = "memory" THEN Collected(memory_metrics)
                               ELSE memory_metrics
          /\ cpu_metrics' = IF sample_pos.at = "cpu" THEN Collected(cpu_metrics)
                            ELSE cpu_metrics
          /\ disk_metrics' = IF sample_pos.at = "disk" THEN Collected(disk_metrics)
                             ELSE disk_metrics
    /\ sample_pos' =
          CASE sample_pos.at = "memory" -> [sample_pos EXCEPT !.at = "cpu"]
            [] sample_pos.at = "cpu" -> [sample_pos EXCEPT !.at = "disk"]
            [] sample_pos.at = "disk" ->
                  IF sample_pos.i < sample_pos.n
                  THEN [sample_pos EXCEPT !.at = "ppid", !.i = @ + 1]
                  ELSE [sample_pos EXCEPT !.at = "network"]
    /\ UNCHANGED <<network_metrics, mon_log, index, exported, procs, outsideSampling>>

\* network_collector.collect_metric(index), after the for loop.
SampleNetwork(timestamp) ==
    /\ sample_pos.at = "network"
    /\ Inject(Bit(timestamp < clock))
    /\ clock' = timestamp
    /\ network_metrics' = Append(network_metrics,
                                 [timestamp |-> timestamp] @@ NetworkRecord(index))
    /\ sample_pos' = [sample_pos EXCEPT !.at = "send"]
    /\ UNCHANGED <<memory_metrics, cpu_metrics, disk_metrics, mon_log, index, exported,
                   procs, outsideSampling>>

\* The rest of the iteration: _send_metrics, then index += 1.
SampleSend ==
    /\ sample_pos.at = "send"
    /\ exported' = SendMetrics(exported, Collections, index,
                               PrepareProfilingData(job), 1, 0).exported
    /\ index' = index + 1
    /\ sample_pos' = NotSampling
    /\ UNCHANGED <<clock, collectorVars, mon_log, procs, faults, outsideSampling>>

\* ------------------------------------------------------------ gateway push
\* util/metrics.py: the exporter is [enabled, apigateway], kept with the
\* requests it has posted and the errors it has logged.
\* A value that is true in "if self.enabled and self.apigateway".
Truthy(x) == x \notin {"None", ""}

\* What the gateway does with a request: success, a non-success status, or
\* no answer at all (requests.post raises).
Responses == {"200", "500", "unreachable"}

\* The labels argument: a dict, a list or tuple of pairs, or anything else.
LabelShapes == {"dict", "list", "other"}

\* Mutant of PostMetric: the request is posted outside the try block.
PostMetric_NoCatch(exp, request, response) ==
    [exporter |-> [exp EXCEPT !.requests = Append(@, request),
                              !.log = IF response = "500"
                                      THEN @ \cup {"Failed to send metric"} ELSE @],
     outcome |-> IF response = "unreachable" THEN "raised" ELSE "returned"]

\* The try block of send_metric: requests.post, the status test, and the
\* handler that logs whatever was raised.
PostMetric(exp, request, response) ==
    [exporter |-> [exp EXCEPT !.requests = Append(@, request),
                              !.log = CASE response = "200" -> @
                                        [] response = "500" -> @ \cup {"Failed to send metric"}
                                        [] response = "unreachable" -> @ \cup {"ConnectionError"}],
     outcome |-> "returned"]

\* PrometheusExporter.send_metric(name, value, type, labels)
SendMetric(exp, name, value_is_number, type, labels_shape, labels, response) ==
    IF ~(exp.enabled /\ Truthy(exp.apigateway))
    THEN [exporter |-> exp, outcome |-> "returned"]
    ELSE IF ~value_is_number
    THEN [exporter |-> [exp EXCEPT !.log = @ \cup {"expected float as value"}],
          outcome |-> "returned"]
    ELSE IF labels_shape = "other"
    THEN [exporter |-> exp, outcome |-> "raised"]
    ELSE PostMetric(exp, [url |-> <<exp.apigateway, "metrics", "job", "lithops", labels>>,
                          payload |-> <<"# TYPE", name, type>>],
                    response)

\* No send_metric call yet.
NoSend == [caller |-> "none", labels_shape |-> "dict", value_is_number |-> TRUE,
           response |-> "200", outcome |-> "returned"]

\* _send_metrics is between two rounds.
BetweenRounds == [t |-> 0, k |-> 0]

\* The next metric type from t on whose sequence has a record at position
\* idx ("if index < len(metric_list)"), at its first key; past the last type
\* when there is none.
RECURSIVE FirstPos(_, _, _)
FirstPos(cols, idx, t) ==
    IF t > Len(MetricTypes) THEN [t |-> t, k |-> 1]
    ELSE IF idx < Len(MetricList(cols, MetricTypes[t])) THEN [t |-> t, k |-> 1]
    ELSE FirstPos(cols, idx, t + 1)

outsideExporter == <<ownerVars, chan, mon_pc, mon_conn_closed, exported,
                     rounds_after_stop, job, procs, faults, metricVars, samplingVars>>

\* _collect_metrics of a round in which no process exits.
ExportCollect ==
    /\ export_pos = BetweenRounds
    /\ index < MaxRounds
    /\ LET acc == CollectAllMetrics(Collections, procs, index,
                                    [p \in Pids |-> Len(ProcessReads)])
       IN /\ memory_metrics' = acc.memory
          /\ cpu_metrics' = acc.cpu
          /\ disk_metrics' = acc.disk
          /\ network_metrics' = acc.network
          /\ export_pos' = FirstPos(acc, index, 1)
    /\ UNCHANGED <<prometheus, last_send, handed, index, mon_log, outsideExporter>>

\* One key of one record in _send_metrics_to_prometheus: the value is a
\* float; send_metric_to_prometheus calls prometheus.send_metric and logs
\* whatever it raises.
ExportKey(response) ==
    /\ export_pos.t \in DOMAIN MetricTypes
    /\ LET metric_type == MetricTypes[export_pos.t]
           keys == MetricFields(metric_type)
           metric == PickMetric(MetricList(Collections, metric_type), index)
           labels_dict == LabelsDict(metric, metric_type, PrepareProfilingData(job))
           sent == SendMetric(prometheus, keys[export_pos.k], TRUE, "gauge", "dict",
                              labels_dict, response)
       IN /\ handed' = Append(handed, [round |-> index, metric_type |-> metric_type,
                                       key |-> keys[export_pos.k], labels |-> labels_dict])
          /\ prometheus' = sent.exporter
          /\ last_send' = [caller |-> "Profiler", labels_shape |-> "dict",
                           value_is_number |-> TRUE, response |-> response,
                           outcome |-> sent.outcome]
          /\ mon_log' = IF sent.outcome = "raised"
                        THEN mon_log \cup {"Failed to send metric to Prometheus"}
                        ELSE mon_log
          /\ export_pos' = IF export_pos.k < Len(keys)
                           THEN [export_pos EXCEPT !.k = @ + 1]
                           ELSE FirstPos(Collections, index, export_pos.t + 1)
    /\ UNCHANGED <<index, collectorVars, outsideExporter>>

\* _send_metrics has gone through the metric types: index += 1.
ExportRoundEnd ==
    /\ export_pos.t > Len(MetricTypes)
    /\ index' = index + 1
    /\ export_pos' = BetweenRounds
    /\ UNCHANGED <<prometheus, last_send, handed, mon_log, collectorVars, outsideExporter>>

\* send_metric called by another user of the exporter, before the Profiler
\* runs, with any value and any shape of labels.
DirectSend(value_is_number, labels_shape, response) ==
    /\ last_send = NoSend
    /\ LET sent == SendMetric(prometheus, "metric", value_is_number, "gauge",
                              labels_shape, {}, response)
       IN /\ prometheus' = sent.exporter
          /\ last_send' = [caller |-> "direct", labels_shape |-> labels_shape,
                           value_is_number |-> value_is_number, response |-> response,
                           outcome |-> sent.outcome]
    /\ UNCHANGED <<handed, export_pos, index, mon_log, collectorVars, outsideExporter>>

\* No exporter is exercised.
ExporterIdle ==
    /\ prometheus = [enabled |-> FALSE, apigateway |-> "None", requests |-> <<>>, log |-> {}]
    /\ last_send = NoSend
    /\ export_pos = BetweenRounds
    /\ handed = <<>>

\* ---------------------------------------------------------- specification
\* The state when profiling_context yields: the pipe exists, the monitor
\* process has been started and has not run yet.
ProfilingInit ==
    /\ owner_pc = "body"
    /\ owner_metrics = Profiler
    /\ body_raised = FALSE
    /\ propagated = "none"
    /\ owner_log = {}
    /\ chan = <<>>
    /\ chan_sent = <<>>
    /\ jr_in = <<>>
    /\ jr_out = <<>>
    /\ parent_closed = FALSE
    /\ child_closed = FALSE
    /\ closing = {}
    /\ terminate_calls = 0
    /\ reaped = FALSE
    /\ mon_pc = "start"
    /\ mon_conn_closed = FALSE
    /\ mon_log = {}
    /\ index = 0
    /\ job \in Jobs
    /\ procs \in [Pids -> {"alive", "dead"}]
    /\ memory_metrics = <<>>
    /\ cpu_metrics = <<>>
    /\ disk_metrics = <<>>
    /\ network_metrics = <<>>
    /\ exported = <<>>
    /\ rounds_after_stop = 0
    /\ faults = 0

\* The profiling agent with a given job and a whole tree, left as started,
\* while a component is exercised on its own.
ProfilingIdle ==
    /\ ProfilingInit
    /\ job = [job_id |-> "J7", executor_id |-> "E1", call_id |-> "C1"]
    /\ procs = [p \in Pids |-> "alive"]

Init ==
    /\ ProfilingInit
    /\ MetricIdle
    /\ ExporterIdle
    /\ SamplingIdle

Endpoints == {"none", "parent_conn", "child_conn"}

JobRunnerMessages == {"Finished", "Running"}

MonitorNext ==
    \/ InitializeProcess
    \/ CollectMetrics
    \/ SendRound
    \/ PollStep
    \/ SleepUntilNextInterval

OwnerNext ==
    \/ \E raises \in BOOLEAN : ScopeBody(raises)
    \/ \E fails \in BOOLEAN : SendStopSignal(fails)
    \/ \E fails \in BOOLEAN : HandleJobrunnerSignal(fails)
    \/ \E fails \in BOOLEAN : JoinTimeout(fails)
    \/ IsAlive
    \/ \E fails \in BOOLEAN : Terminate(fails)
    \/ \E fails \in BOOLEAN : Join(fails)
    \/ HandlerIsAlive
    \/ \E fails \in BOOLEAN : HandlerTerminate(fails)
    \/ \E fails \in BOOLEAN : HandlerJoin(fails)
    \/ \E failing \in Endpoints : CloseConnections(failing)

EnvNext ==
    \/ \E p \in Pids : ProcExit(p)
    \/ \E message \in JobRunnerMessages : JobRunnerSend(message)

Next == MonitorNext \/ OwnerNext \/ EnvNext

Spec == Init /\ [][Next]_vars

\* The arithmetic of the metric records, on every pair of records.
MetricInit ==
    /\ ProfilingIdle
    /\ lhs \in MetricsOf({RootPid})
    /\ rhs \in MetricsOf(Pids)
    /\ number = 0
    /\ expr = <<>>
    /\ result = Returned(NoMetric)
    /\ ExporterIdle
    /\ SamplingIdle

MetricNext ==
    \/ EvalAdd
    \/ EvalAddSwapped
    \/ EvalSub
    \/ \E n \in 0 .. MaxDivisor : EvalTrueDiv(n)

MetricSpec == MetricInit /\ [][MetricNext]_vars

\* The Disk and the Network collector sampling on their own.
RateInit ==
    /\ ProfilingIdle
    /\ MetricIdle
    /\ ExporterIdle
    /\ SamplingIdle

RateNext ==
    \/ \E p \in Pids, t \in Timestamps, v \in CounterValues : DiskSample(p, t, v)
    \/ \E t \in Timestamps, v \in CounterValues : NetworkSample(t, v)

RateSpec == RateInit /\ [][RateNext]_vars

\* The sending half of the Profiler's rounds against an exporter of any
\* configuration and a gateway of any behaviour.
ExporterInit ==
    /\ ProfilingIdle
    /\ MetricIdle
    /\ prometheus \in [enabled : BOOLEAN, apigateway : {"None", "", "http://gateway"},
                        requests : {<<>>}, log : {{}}]
    /\ last_send = NoSend
    /\ export_pos = BetweenRounds
    /\ handed = <<>>
    /\ SamplingIdle

ExporterNext ==
    \/ ExportCollect
    \/ \E response \in Responses : ExportKey(response)
    \/ ExportRoundEnd
    \/ \E value_is_number \in BOOLEAN, labels_shape \in LabelShapes, response \in Responses :
          DirectSend(value_is_number, labels_shape, response)

ExporterSpec == ExporterInit /\ [][ExporterNext]_vars

\* The rounds of the loop of start_profiling, one collect_metric call at a
\* time, on a tree whose processes may exit and a host whose clock may be
\* set back.
SamplingInit ==
    /\ ProfilingIdle
    /\ MetricIdle
    /\ ExporterIdle
    /\ SamplingIdle

SamplingNext ==
    \/ SampleStart
    \/ SamplePPid
    \/ \E t \in Timestamps : SampleCollect(t)
    \/ \E t \in Timestamps : SampleNetwork(t)
    \/ SampleSend
    \/ \E p \in Pids : ProcExit(p)

SamplingSpec == SamplingInit /\ [][SamplingNext]_vars

\* The monitor is an OS process of its own: it is scheduled as long as it has
\* a step to take, and its sleep between two rounds is finite. Nothing is
\* assumed about how fast the owner is.
LiveSpec == Spec /\ WF_vars(MonitorNext)

\* ------------------------------------------------------------ properties
\* The finally block of profiling_context ran to its end.
ReleaseCompleted == owner_pc = "exited" /\ propagated # "finalize"

\* The owner is at or past _finalize_process.
PastStopSignal == owner_pc \notin {"body", "send_stop"}

\* C1: when the release of the supervision context completes, the monitor
\* process is not running and has been reaped, whatever the monitor did
\* (stopped on the token, ignored it, hung in an export call, or had exited
\* before); a monitor that was terminated was terminated by terminate() and
\* joined afterwards.
C1_ReleaseLeavesNoMonitor ==
    ReleaseCompleted =>
        /\ ~MonitorAlive
        /\ reaped
        /\ (mon_pc = "terminated" => terminate_calls > 0)

\* A release that completed around a monitor that had to be terminated.
C1_Witness ==
    /\ ReleaseCompleted
    /\ mon_pc = "terminated"
    /\ reaped
    /\ StopTokenSent

\* C2: on every exit path of the scope body (normal return or exception) the
\* owner has called send("stop") on parent_conn before it waits for the
\* monitor; the token is on the channel, or the failure of the send is
\* logged and the owner goes on with the release (it is not what leaves the
\* scope).
C2_StopSentOnEveryExitPath ==
    PastStopSignal =>
        /\ \/ chan_sent = <<"stop">>
           \/ chan_sent = <<>> /\ "Failed to send stop signal" \in owner_log
        /\ propagated \in {"none", "body", "finalize"}
        /\ (owner_pc = "exited" /\ propagated = "body") => body_raised

\* The body raised, the send of the token failed, and the owner is waiting
\* for the monitor all the same.
C2_Witness ==
    /\ body_raised
    /\ owner_pc = "join_timeout"
    /\ chan_sent = <<>>
    /\ "Failed to send stop signal" \in owner_log

\* C3: each of the four release steps runs whatever the steps before it
\* did: once the scope is left, the stop send, the job-runner check and the
\* finalization have been gone through and close() has been called on both
\* endpoints of the pipe.
C3_ReleaseStepsIndependent ==
    owner_pc = "exited" =>
        /\ chan_sent = <<"stop">> \/ "Failed to send stop signal" \in owner_log
        /\ closing = {"parent_conn", "child_conn"}

\* C4: leaving the scope raises to the owner what the body raised, and
\* nothing when the body returned normally.
C4_OnlyBodyFailureReachesOwner ==
    owner_pc = "exited" => propagated = (IF body_raised THEN "body" ELSE "none")

\* The exporter was handed record metric of kind metric_type, with labels
\* holding the job_id of the job and, for a process record, its pids.
ExportedWith(metric_type, metric) ==
    \E i \in DOMAIN exported :
        /\ exported[i].metric_type = metric_type
        /\ exported[i].metric = metric
        /\ <<"job_id", job.job_id>> \in exported[i].labels
        /\ metric_type # "network_metrics" =>
              /\ <<"pid", Str(metric.pid)>> \in exported[i].labels
              /\ <<"parent_pid", Str(metric.parent_pid)>> \in exported[i].labels

\* Every record of the four sequences that satisfies Of(record) went to the
\* exporter.
RecordsExported(Of(_)) ==
    \A t \in DOMAIN MetricTypes :
        LET metric_list == MetricList(Collections, MetricTypes[t])
        IN \A i \in DOMAIN metric_list :
              Of(metric_list[i]) => ExportedWith(MetricTypes[t], metric_list[i])

\* The monitor left its loop because its poll found the stop token.
StoppedByToken == mon_pc = "stopped" /\ "Received stop signal" \in mon_log

\* C5: once the monitor has run its rounds and has been stopped, every
\* record of each of the four sequences has been passed to the exporter, with
\* labels holding the job_id and, for a process record, its pid and
\* parent_pid. Stated for the runs in which no process exits and no call
\* fails, which the claim covers.
C5_EveryRecordExported ==
    (StoppedByToken /\ faults = 0) => LET InAnyRound(r) == TRUE IN RecordsExported(InAnyRound)

\* The step in which the poll of the monitor takes the stop token.
PollFindsStop ==
    /\ mon_pc = "poll"
    /\ Len(chan) > 0
    /\ Head(chan) = "stop"
    /\ chan' = Tail(chan)

\* C6: the poll that finds the stop token ends the loop in the same
\* iteration: the records of the round are all exported by then, no sleep and
\* no further round follow, and the Profiler is Stopped. Stated for the runs
\* in which no process exits and no call fails, which the claim covers.
C6_StopEndsLoopInSameIteration ==
    [][(PollFindsStop /\ faults = 0) =>
          /\ mon_pc' = "stopped"
          /\ index' = index
          /\ LET InRound(r) == r.collection_id = index - 1
             IN RecordsExported(InRound)]_vars

\* The same step without the condition on the records of the round.
C6_StopEndsLoop ==
    [][PollFindsStop => mon_pc' = "stopped" /\ index' = index /\ mon_conn_closed']_vars

CollectStep == mon_pc = "collect" /\ mon_pc' \notin {"collect", "terminated"}

\* C8: a round whose collection finds the root process gone takes the
\* Profiler to Stopped in that round.
C8_RootGoneStopsProfiler ==
    [][(CollectStep /\ procs[RootPid] # "alive") =>
          /\ mon_pc' = "stopped"
          /\ index' = index]_vars

\* C9: whenever start_profiling has ended, the Profiler is Stopped and the
\* monitor's end of the control channel is closed.
C9_StoppedAndChannelClosed ==
    mon_pc \in {"stopped", "crashed"} => (mon_pc = "stopped" /\ mon_conn_closed)

\* Sequence metrics holds a record of process p for round r.
HasRecord(metrics, p, r) ==
    \E i \in DOMAIN metrics : metrics[i].pid = p /\ metrics[i].collection_id = r

\* Some non-root process of the snapshot of the round exits during the round.
NonRootExitsInRound ==
    /\ procs[RootPid] = "alive"
    /\ \E p \in Pids \ {RootPid} :
          /\ \A q \in RootPid .. p : procs[q] = "alive"
          /\ procs'[p] = "dead"

\* C10: when a non-root process of the snapshot exits during the round, the
\* round goes on: each process of the snapshot that lives through the round
\* has its Memory, CPU and Disk record of the round, and the Network record
\* of the round is produced.
C10_ExitOfNonRootKeepsRound ==
    [][(CollectStep /\ NonRootExitsInRound /\ procs'[RootPid] = "alive") =>
          /\ \A p \in Pids :
                ((\A q \in RootPid .. p : procs[q] = "alive") /\ procs'[p] = "alive") =>
                    /\ HasRecord(memory_metrics', p, index)
                    /\ HasRecord(cpu_metrics', p, index)
                    /\ HasRecord(disk_metrics', p, index)
          /\ \E i \in DOMAIN network_metrics' :
                network_metrics'[i].collection_id = index]_vars

\* The records a step appended to sequence metrics.
Appended(old, new) == SubSeq(new, Len(old) + 1, Len(new))

\* Exactly one record of each process of plist is in sequence metrics.
OnePerProcess(metrics, plist) ==
    /\ Len(metrics) = Len(plist)
    /\ \A i \in DOMAIN plist : metrics[i].pid = plist[i]

\* C11: a round over a tree of n processes that all stay alive during the
\* call appends n Memory, n CPU and n Disk records, one per process, and one
\* Network record, each with collection_id = round id; what the sequences
\* held before is kept.
C11_RoundComposition ==
    [][(CollectStep /\ procs[RootPid] = "alive" /\ procs' = procs) =>
          LET plist == ProcessList(procs)
              all == Appended(memory_metrics, memory_metrics')
                         \o Appended(cpu_metrics, cpu_metrics')
                         \o Appended(disk_metrics, disk_metrics')
                         \o Appended(network_metrics, network_metrics')
          IN /\ OnePerProcess(Appended(memory_metrics, memory_metrics'), plist)
             /\ OnePerProcess(Appended(cpu_metrics, cpu_metrics'), plist)
             /\ OnePerProcess(Appended(disk_metrics, disk_metrics'), plist)
             /\ Len(network_metrics') = Len(network_metrics) + 1
             /\ \A i \in DOMAIN all : all[i].collection_id = index
             /\ SubSeq(memory_metrics', 1, Len(memory_metrics)) = memory_metrics
             /\ SubSeq(cpu_metrics', 1, Len(cpu_metrics)) = cpu_metrics
             /\ SubSeq(disk_metrics', 1, Len(disk_metrics)) = disk_metrics
             /\ SubSeq(network_metrics', 1, Len(network_metrics)) = network_metrics]_vars

\* Two rounds were collected over the whole tree, with no process exiting.
C11_Witness ==
    /\ mon_pc = "send"
    /\ index = 1
    /\ faults = 0
    /\ Len(memory_metrics) = 2 * NumProcs
    /\ Len(cpu_metrics) = 2 * NumProcs
    /\ Len(disk_metrics) = 2 * NumProcs
    /\ Len(network_metrics) = 2

\* C18: terminate() is called only after the bounded join, and only on a
\* monitor that is_alive() found running after it: a monitor that had exited
\* when the bounded join returned is never terminated; and a terminate() that
\* went through is followed by a join(), which returns only once the monitor
\* has exited and is reaped.
C18_TerminateOnlyAfterBoundedWait ==
    [][/\ (terminate_calls' # terminate_calls) =>
              /\ owner_pc \in {"terminate", "handler_terminate"}
              /\ ~reaped
              /\ terminate_calls' = terminate_calls + 1
       /\ (owner_pc' \in {"terminate", "handler_terminate"} /\ owner_pc' # owner_pc) =>
              /\ owner_pc \in {"is_alive", "handler_is_alive"}
              /\ MonitorAlive
       /\ (owner_pc = "join_timeout" /\ owner_pc' = "is_alive" /\ ~MonitorAlive) =>
              reaped'
       /\ (terminate_calls' # terminate_calls /\ faults' = faults) =>
              /\ ~MonitorAlive'
              /\ owner_pc' \in {"join", "handler_join"}
       /\ (owner_pc \in {"join", "handler_join"} /\ owner_pc' = "close") =>
              ~MonitorAlive /\ reaped']_vars

\* The monitor was still sleeping when the bounded join returned; it was
\* terminated once and joined.
C18_Witness ==
    /\ owner_pc = "close"
    /\ terminate_calls = 1
    /\ mon_pc = "terminated"
    /\ reaped
    /\ faults = 0

\* The records the exporter is handed in a step.
NewlyExported == Appended(exported, exported')

\* C19: every record handed to the exporter in the iteration whose round id
\* is r was produced in round r (collection_id = r).
C19_ExportedInItsRound ==
    [][(mon_pc = "send") =>
          \A i \in DOMAIN NewlyExported :
              NewlyExported[i].metric.collection_id = index]_vars

\* Place of a kind in the order memory, CPU, disk, network.
Rank(metric_type) ==
    CASE metric_type = "memory_metrics" -> 1
      [] metric_type = "cpu_metrics" -> 2
      [] metric_type = "disk_metrics" -> 3
      [] metric_type = "network_metrics" -> 4

\* C20: within a round the records are produced and exported in the order
\* memory, CPU, disk, network. Production: a process has its CPU record of a
\* round only if it has its Memory record, and its Disk record only if it has
\* its CPU record (a process that exits between two collectors leaves the
\* records of the earlier ones), and the Network record of the round comes
\* after the processes. Export: the exporter receives the records of the
\* round in that order.
C20_FixedOrder ==
    [][/\ CollectStep =>
              /\ \A p \in Pids :
                    /\ HasRecord(cpu_metrics', p, index) => HasRecord(memory_metrics', p, index)
                    /\ HasRecord(disk_metrics', p, index) => HasRecord(cpu_metrics', p, index)
              /\ Len(network_metrics') > Len(network_metrics) =>
                    \A p \in Pids :
                        ((\A q \in RootPid .. p : procs[q] = "alive") /\ procs'[p] = "alive")
                            => HasRecord(disk_metrics', p, index)
       /\ (mon_pc = "send") =>
              \A i, j \in DOMAIN NewlyExported :
                  i < j => Rank(NewlyExported[i].metric_type)
                               <= Rank(NewlyExported[j].metric_type)]_vars

\* The two operands are records of the same concrete kind.
SameKind == lhs.kind = rhs.kind

\* The additive fields of record a equal those of record b.
SameAdditiveFields(a, b) ==
    \A f \in ToSet(MetricTypesFields(b.kind)) :
        f \in DOMAIN a.data /\ a.data[f] = b.data[f]

\* C13: for records A and B of the same kind, of any of the four kinds,
\* A + B succeeds, and (A + B) - B succeeds and yields a record of that kind
\* whose additive fields are those of A.
C13_AddThenSubRecovers ==
    /\ (SameKind /\ expr = <<"add">>) => result.error = "none"
    /\ (SameKind /\ expr = <<"add", "sub">>) =>
          /\ result.error = "none"
          /\ result.value.kind = lhs.kind
          /\ SameAdditiveFields(result.value, lhs)

\* C14: for records A and B of the same kind, A + B and B + A both succeed
\* and are the same record.
C14_AddCommutes ==
    (SameKind /\ expr \in {<<"add">>, <<"radd">>}) =>
        /\ result.error = "none"
        /\ MetricAdd(lhs, rhs) = MetricAdd(rhs, lhs)

\* C15: for records of two different kinds, in either order, add and
\* subtract raise TypeError (different metric types) and yield no record; the
\* operands are left as they were.
C15_CrossKindFails ==
    [][(~SameKind /\ expr = <<>> /\ expr' \in {<<"add">>, <<"radd">>, <<"sub">>}) =>
          /\ result'.error = "TypeError"
          /\ result'.detail \in {"Cannot add different metric types",
                                 "Cannot subtract different metric types"}
          /\ result'.value = NoMetric
          /\ lhs' = lhs
          /\ rhs' = rhs]_vars

\* A Network record minus a CPU record was refused.
C15_Witness ==
    /\ lhs.kind = "NetworkMetric"
    /\ rhs.kind = "CPUMetric"
    /\ expr = <<"sub">>
    /\ result.error = "TypeError"

\* C16: A / 0 raises ValueError and leaves A as it was; A / n for a non-zero
\* number n succeeds with each additive field divided by n.
C16_DivideByScalar ==
    [][(expr = <<>> /\ expr' = <<"truediv">>) =>
          /\ lhs' = lhs
          /\ IF number' = 0
             THEN result'.error = "ValueError"
             ELSE /\ result'.error = "none"
                  /\ result'.value.kind = lhs.kind
                  /\ \A f \in ToSet(MetricTypesFields(lhs.kind)) :
                        result'.value.data[f] * number' = lhs.data[f]]_vars

\* rate is the rate derived from cumulative value current of a sample taken
\* at time timestamp, given the earlier samples of the same subject: before
\* holds their <<timestamp, cumulative value>> in the order they were taken.
DerivedRate(rate, current, timestamp, before) ==
    IF before = <<>> THEN rate = 0
    ELSE LET previous == before[Len(before)]
             dt == timestamp - previous[1]
         IN IF dt > 0 THEN rate * dt = current - previous[2] ELSE rate = 0

\* The samples of condition Of in metrics, as <<timestamp, field>> pairs.
RECURSIVE SamplesOf(_, _, _)
SamplesOf(metrics, Of(_), field) ==
    IF metrics = <<>> THEN <<>>
    ELSE LET last == metrics[Len(metrics)]
             rest == SamplesOf(SubSeq(metrics, 1, Len(metrics) - 1), Of, field)
         IN IF Of(last) THEN Append(rest, <<last.timestamp, last[field]>>) ELSE rest

\* C12: the rates of a Disk record of pid p are derived from the most recent
\* earlier Disk record of the same pid p, those of a Network record from the
\* latest earlier Network record: (current - previous) / dt when there is a
\* previous sample and dt > 0, and 0 when there is none or dt <= 0.
C12_RatesFromHistory ==
    [][/\ (disk_metrics' # disk_metrics) =>
              LET new == disk_metrics'[Len(disk_metrics')]
                  SamePid(m) == m.pid = new.pid
              IN /\ disk_metrics' = Append(disk_metrics, new)
                 /\ DerivedRate(new.disk_read_rate, new.disk_read_mb, new.timestamp,
                                SamplesOf(disk_metrics, SamePid, "disk_read_mb"))
                 /\ DerivedRate(new.disk_write_rate, new.disk_write_mb, new.timestamp,
                                SamplesOf(disk_metrics, SamePid, "disk_write_mb"))
       /\ (network_metrics' # network_metrics) =>
              LET new == network_metrics'[Len(network_metrics')]
                  AnyRecord(m) == TRUE
              IN /\ network_metrics' = Append(network_metrics, new)
                 /\ DerivedRate(new.net_read_rate, new.net_read_mb, new.timestamp,
                                SamplesOf(network_metrics, AnyRecord, "net_read_mb"))
                 /\ DerivedRate(new.net_write_rate, new.net_write_mb, new.timestamp,
                                SamplesOf(network_metrics, AnyRecord, "net_write_mb"))]_vars

\* Three Disk samples, the second of another process with another counter
\* value: the rate of the third is derived from the first.
C12_Witness ==
    /\ Len(disk_metrics) = 3
    /\ disk_metrics[1].pid = disk_metrics[3].pid
    /\ disk_metrics[2].pid # disk_metrics[3].pid
    /\ disk_metrics[2].disk_read_mb # disk_metrics[1].disk_read_mb
    /\ disk_metrics[2].timestamp > disk_metrics[1].timestamp
    /\ disk_metrics[3].timestamp > disk_metrics[2].timestamp
    /\ disk_metrics[3].disk_read_rate > 0

\* The exporter is enabled and has a gateway configured.
Configured(exp) == exp.enabled /\ Truthy(exp.apigateway)

\* A send_metric call is made in the step.
SendCalled == handed' # handed \/ last_send' # last_send

\* Positions of the calls of round r in the Profiler's send_metric calls.
CallsOfRound(r) == {i \in DOMAIN handed : handed[i].round = r}

\* The fields of round r that _send_metrics has a record for.
FieldsOfRound(r) ==
    UNION {{<<MetricTypes[t], key>> : key \in ToSet(MetricFields(MetricTypes[t]))} :
              t \in {u \in DOMAIN MetricTypes :
                        r < Len(MetricList(Collections, MetricTypes[u]))}}

\* C17: export failures are not fatal. The exporter's send returns normally
\* when the gateway is unreachable or answers a non-success status (it
\* raises only for labels that are neither a dict nor a list or tuple, a
\* fault of the caller), posts the request when it is configured, and does
\* nothing when it is disabled or has no gateway; and in the Profiler each
\* round hands the exporter every field of every record it has for the
\* round, whatever happened to the fields before, and goes on to the next
\* round.
C17_ExportFailuresNonFatal ==
    [][/\ SendCalled =>
              /\ last_send'.outcome = "raised" => last_send'.labels_shape = "other"
              /\ ~Configured(prometheus) =>
                    prometheus' = prometheus /\ last_send'.outcome = "returned"
              /\ (Configured(prometheus) /\ last_send'.value_is_number
                        /\ last_send'.labels_shape # "other") =>
                    Len(prometheus'.requests) = Len(prometheus.requests) + 1
              /\ (last_send'.caller = "Profiler" /\ last_send'.outcome = "returned") =>
                    mon_log' = mon_log
       /\ (index' = index + 1) =>
              /\ {<<handed[i].metric_type, handed[i].key>> : i \in CallsOfRound(index)}
                    = FieldsOfRound(index)
              /\ Cardinality(CallsOfRound(index)) = Cardinality(FieldsOfRound(index))]_vars

\* Every round was sent to a gateway that was unreachable for some requests
\* and refused others: each call made a request, and the rounds went on.
C17_Witness ==
    /\ index = MaxRounds
    /\ export_pos = BetweenRounds
    /\ {"ConnectionError", "Failed to send metric"} \subseteq prometheus.log
    /\ Len(handed) > 0
    /\ Len(prometheus.requests) = Len(handed)
    /\ \A r \in 0 .. MaxRounds - 1 : CallsOfRound(r) # {}

\* C22: for records A and B of the same kind, of any of the four kinds, the
\* results of A + B and A - B have the later of the two timestamps and the
\* collection_id of A; the result of A / n, n not 0, has the timestamp and
\* the collection_id of A; the operands are left as they were.
C22_ResultIdentity ==
    [][/\ (SameKind /\ expr = <<>> /\ expr' \in {<<"add">>, <<"sub">>}) =>
              /\ result'.error = "none"
              /\ result'.value.data.timestamp = Max(lhs.data.timestamp, rhs.data.timestamp)
              /\ result'.value.data.collection_id = lhs.data.collection_id
              /\ lhs' = lhs
              /\ rhs' = rhs
       /\ (expr = <<>> /\ expr' = <<"truediv">> /\ number' # 0) =>
              /\ result'.error = "none"
              /\ result'.value.data.timestamp = lhs.data.timestamp
              /\ result'.value.data.collection_id = lhs.data.collection_id
              /\ lhs' = lhs]_vars

\* The step of the owner that checks the job-runner channel.
JobrunnerCheck == owner_pc = "jobrunner" /\ owner_pc' # "jobrunner"

C25_RoundBeforeFirstPoll ==
    [][/\ (mon_pc = "poll" \/ (chan' # Append(chan, "stop") /\ chan' # chan)) =>
              /\ index >= 1
              /\ mon_pc = "poll"
       /\ (index' # index) => (mon_pc = "send" /\ index' = index + 1)
       /\ (mon_pc' = "send" /\ mon_pc # "send") => mon_pc = "collect"
       /\ (StopTokenSent /\ MonitorAlive /\ index = 0) => chan = <<"stop">>
       /\ (mon_pc' = "stopped") => index' >= 1]_vars

\* The token was sent before the monitor began its first round; the monitor
\* collected and exported that round, and stopped at its first poll.
C25_Witness ==
    /\ StoppedByToken
    /\ index = 1
    /\ rounds_after_stop = 1
    /\ Len(network_metrics) = 1
    /\ Len(exported) > 0


\* The variables only the monitor process writes: its Profiler object, its
\* round id, its log and the calls it has made to the exporter.
MonitorMemory == <<collectorVars, index, mon_log, exported, mon_conn_closed>>

IsPrefix(s, t) == Len(s) <= Len(t) /\ SubSeq(t, 1, Len(s)) = s

\* The values of a field do not decrease along a sequence of records.
NonDecreasing(metrics, field) ==
    \A i, j \in 1 .. Len(metrics) : i < j => metrics[i][field] <= metrics[j][field]

\* What a record is about: its process, or the host for a Network record.
Subject(metric) == IF "pid" \in DOMAIN metric THEN metric.pid ELSE 0

\* No two records of a sequence have the same subject and round.
OnePerSubjectAndRound(metrics) ==
    \A i, j \in 1 .. Len(metrics) :
        (/\ Subject(metrics[i]) = Subject(metrics[j])
         /\ metrics[i].collection_id = metrics[j].collection_id) => i = j

\* An iteration of the loop ends: _send_metrics has returned.
IterationEnds == sample_pos.at = "send" /\ sample_pos'.at = "idle"

\* C21: each collector's sequence is append-only and ordered. The round id
\* starts at 0 and grows by exactly one at the end of every iteration,
\* whether its collection failed or not, and at no other step; a step
\* removes, replaces or modifies no record of a sequence; along each
\* sequence the timestamps and the collection ids do not decrease; a
\* sequence has at most one record per subject and round.
C21_AppendOnlyOrdered ==
    /\ index = 0
    /\ [][/\ index' = IF IterationEnds THEN index + 1 ELSE index
          /\ \A k \in 1 .. Len(collectorVars) :
                /\ IsPrefix(collectorVars[k], collectorVars'[k])
                /\ NonDecreasing(collectorVars'[k], "timestamp")
                /\ NonDecreasing(collectorVars'[k], "collection_id")
                /\ OnePerSubjectAndRound(collectorVars'[k])]_vars

=============================================================================
